---- MODULE Spec2Model ----
(***************************************************************************)
(* Model of the iMessages chatbot server: the polling loop with its        *)
(* persisted cursor (server.py, EchoServer.poll_messages), the per-message *)
(* handler under the admission semaphore and the GUI lock                  *)
(* (EchoServer.handle_conversation), the retry loops of the AI client and  *)
(* of the AppleScript sender, and the pure splitter / pacer functions.     *)
(*                                                                         *)
(* Texts are sequences of one-character strings; NL is the line feed.      *)
(* Delays of calculate_typing_delay are in tenths of a second; the backoff *)
(* delays of the retry loops are in seconds.                               *)
(***************************************************************************)
EXTENDS Integers, Sequences, FiniteSets, TLC

VARIABLES
    source,          \* chat.db: source[r] is the message with ROWID r
    cursor,          \* processing_state.last_processed_row_id (persisted)
    mpc,             \* position of main() / run() / poll_messages()
    running,         \* EchoServer.running
    signalled,       \* a shutdown signal was delivered to this process
    last_row_id,     \* local of poll_messages
    new_row_id,      \* local of poll_messages
    loopStart,       \* cursor persisted when the polling loop last started
    writeRaised,     \* the last cursor write of the loop raised
    tasks,           \* every handle_conversation task ever created
    live,            \* EchoServer.tasks (ids of tasks not yet done)
    sem,             \* free slots of EchoServer.semaphore
    gui_lock,        \* holder of EchoServer.gui_lock, 0 when free
    typing,          \* Config.ENABLE_TYPING_INDICATOR
    MAX_CONCURRENT_REQUESTS,   \* Config.MAX_CONCURRENT_REQUESTS
    closed,          \* the AI session and the store were closed
    atShutdown,      \* EchoServer.tasks when shutdown() was entered
    polled,          \* the source query of this iteration: "ok" or "failed"
    rcall, rpc, rattempt, rlog, rwaits, rresult,  \* one retried call
    pfun, ptext, pcap, presult, ppc   \* one call of a pure function

mainVars == <<source, cursor, mpc, running, signalled, last_row_id, new_row_id,
              loopStart, writeRaised, tasks, live, sem, gui_lock, typing,
              MAX_CONCURRENT_REQUESTS, closed, atShutdown, polled>>
retryVars == <<rcall, rpc, rattempt, rlog, rwaits, rresult>>
pureVars == <<pfun, ptext, pcap, presult, ppc>>
vars == <<source, cursor, mpc, running, signalled, last_row_id, new_row_id,
          loopStart, writeRaised, tasks, live, sem, gui_lock, typing,
          MAX_CONCURRENT_REQUESTS, closed, atShutdown, polled,
          rcall, rpc, rattempt, rlog, rwaits, rresult,
          pfun, ptext, pcap, presult, ppc>>

(***************************************************************************)
(* Bounds of the model.                                                    *)
(***************************************************************************)
\* Rows the message source may hold in all.
MaxRow == 2
\* Handler tasks created in all, over every run of the process.
MaxTasks == 2
\* Config.MAX_CONCURRENT_REQUESTS is 20 in config.py; the model runs the
\* server with every limit from 1 to MaxSlots, so that the semaphore
\* saturates.
MaxSlots == 2
\* Longest text given to split_into_messages (over the characters "a", " "
\* and the line feed), and the largest cap it is called with.
MaxTextLen == 7
MaxCap == 3
\* Longest message given to calculate_typing_delay.
MaxMsgLen == 201

(***************************************************************************)
(* Program constants.                                                      *)
(***************************************************************************)
max_retries == 3
base_delay == 1
APPLESCRIPT_RETRY_COUNT == 3
APPLESCRIPT_RETRY_DELAY == 1
max_messages == 5

\* What a call of the store (ConversationDatabase: the cursor and the
\* conversation log) can do: return, or raise.
StoreOutcomes == {"ok", "raises"}

\* What a typing-indicator action of the sender
\* (navigate_to_chat_and_type_dot, clear_dot_from_message_field) can do: it
\* returns, having acted or having failed; like show_typing_indicator and
\* clear_typing_indicator it reports a failure without raising.
TypingOutcomes == {"acted", "failed"}

NL == "\n"
None == "None"
FALLBACK == "fallback_message"

(***************************************************************************)
(* Text helpers: Python's str.split(sep), str.strip() and sep.join().      *)
(***************************************************************************)
IsSpace(c) == c \in {" ", NL}

RECURSIVE LStrip(_)
LStrip(s) == IF s = <<>> THEN s
             ELSE IF IsSpace(Head(s)) THEN LStrip(Tail(s)) ELSE s

RECURSIVE RStrip(_)
RStrip(s) == IF s = <<>> THEN s
             ELSE IF IsSpace(s[Len(s)]) THEN RStrip(SubSeq(s, 1, Len(s) - 1)) ELSE s

Strip(s) == RStrip(LStrip(s))

\* text.split('\n\n'): left to right, non-overlapping separators
RECURSIVE SplitFrom(_, _, _)
SplitFrom(s, cur, acc) ==
    IF s = <<>> THEN Append(acc, cur)
    ELSE IF Len(s) >= 2 /\ s[1] = NL /\ s[2] = NL
         THEN SplitFrom(SubSeq(s, 3, Len(s)), <<>>, Append(acc, cur))
         ELSE SplitFrom(Tail(s), Append(cur, Head(s)), acc)

SplitBlank(s) == SplitFrom(s, <<>>, <<>>)

\* '\n\n'.join(parts)
RECURSIVE JoinBlank(_)
JoinBlank(ps) ==
    IF ps = <<>> THEN <<>>
    ELSE IF Len(ps) = 1 THEN ps[1]
    ELSE ps[1] \o <<NL, NL>> \o JoinBlank(Tail(ps))

\* [p.strip() for p in parts if p.strip()]
RECURSIVE StripNonEmpty(_)
StripNonEmpty(ps) ==
    IF ps = <<>> THEN <<>>
    ELSE IF Strip(Head(ps)) = <<>> THEN StripNonEmpty(Tail(ps))
    ELSE <<Strip(Head(ps))>> \o StripNonEmpty(Tail(ps))

\* mutant: the merged part starts one paragraph too late
split_into_messages_drops(text, cap) ==
    IF text = <<>> THEN <<>>
    ELSE LET parts == StripNonEmpty(SplitBlank(text))
         IN  IF Len(parts) <= cap THEN parts
             ELSE Append(SubSeq(parts, 1, cap - 1),
                         JoinBlank(SubSeq(parts, cap + 1, Len(parts))))

split_into_messages(text, cap) ==
    IF text = <<>> THEN <<>>
    ELSE LET parts == StripNonEmpty(SplitBlank(text))
         IN  IF Len(parts) <= cap THEN parts
             ELSE Append(SubSeq(parts, 1, cap - 1),
                         JoinBlank(SubSeq(parts, cap, Len(parts))))

\* mutant: `<=` in the first comparison
calculate_typing_delay_le(message) ==
    LET length == Len(message)
    IN  IF length <= 20 THEN 10
        ELSE IF length < 50 THEN 15
        ELSE IF length < 100 THEN 20
        ELSE IF length < 200 THEN 25
        ELSE 30

calculate_typing_delay(message) ==
    LET length == Len(message)
    IN  IF length < 20 THEN 10
        ELSE IF length < 50 THEN 15
        ELSE IF length < 100 THEN 20
        ELSE IF length < 200 THEN 25
        ELSE 30

(***************************************************************************)
(* The retry loops.  One attempt of AIClient.get_response and of           *)
(* MessageSender.send_message, as a function of the attempt index (from 0) *)
(* and of what the external call did.  The result says whether the call    *)
(* is over, the value it returns, and the delay slept before the next      *)
(* attempt (0 when none).                                                  *)
(***************************************************************************)
RECURSIVE Pow2(_)
Pow2(n) == IF n = 0 THEN 1 ELSE 2 * Pow2(n - 1)

\* What one POST to the AI endpoint can do.
AiOutcomes == {"ok_reply",       \* 200, a JSON object with a non-empty reply
               "ok_noreply",     \* 200, a JSON object without a reply (or an empty one)
               "ok_malformed",   \* 200, response.json() raises
               "status_4xx",     \* a status below 500 other than 200
               "status_5xx",     \* a status >= 500
               "timeout",        \* asyncio.TimeoutError
               "exception"}      \* any other exception of the transport

\* What one osascript run can do.
SendOutcomes == {"rc_zero", "rc_nonzero", "exception"}

\* mutant: `attempt < max_retries`, the last attempt sleeps as well
Retry_sleeps_last(attempt, retries, base) ==
    IF attempt < retries
    THEN [done |-> FALSE, value |-> None, wait |-> base * Pow2(attempt)]
    ELSE [done |-> TRUE, value |-> None, wait |-> 0]

\* a failed attempt of a retry loop: sleep and continue, or give up
Retry(attempt, retries, base) ==
    IF attempt < retries - 1
    THEN [done |-> FALSE, value |-> None, wait |-> base * Pow2(attempt)]
    ELSE [done |-> TRUE, value |-> None, wait |-> 0]

Return(v) == [done |-> TRUE, value |-> v, wait |-> 0]

AiStep(attempt, outcome) ==
    CASE outcome = "ok_reply"     -> Return("reply")
      [] outcome = "ok_noreply"   -> Return(None)
      [] outcome = "ok_malformed" -> Retry(attempt, max_retries, base_delay)
      [] outcome = "status_4xx"   -> Return(None)
      [] outcome = "status_5xx"   -> Retry(attempt, max_retries, base_delay)
      [] outcome = "timeout"      -> Retry(attempt, max_retries, base_delay)
      [] outcome = "exception"    -> Retry(attempt, max_retries, base_delay)

SendStep(attempt, outcome) ==
    CASE outcome = "rc_zero"    -> Return(TRUE)
      [] outcome = "rc_nonzero" ->
            LET r == Retry(attempt, APPLESCRIPT_RETRY_COUNT, APPLESCRIPT_RETRY_DELAY)
            IN  [r EXCEPT !.value = FALSE]
      [] outcome = "exception"  ->
            LET r == Retry(attempt, APPLESCRIPT_RETRY_COUNT, APPLESCRIPT_RETRY_DELAY)
            IN  [r EXCEPT !.value = FALSE]

\* for attempt in range(max_retries): the loop of the call named c
RetriesOf(c) == IF c = "ai" THEN max_retries ELSE APPLESCRIPT_RETRY_COUNT
OutcomesOf(c) == IF c = "ai" THEN AiOutcomes ELSE SendOutcomes
StepOf(c, attempt, outcome) ==
    IF c = "ai" THEN AiStep(attempt, outcome) ELSE SendStep(attempt, outcome)
\* the value returned when the for loop runs out (the trailing return)
ExhaustedOf(c) == IF c = "ai" THEN None ELSE FALSE

\* The whole call: the loop run on the outcomes outs[1], outs[2], ... of its
\* attempts; the value returned and the number of attempts made.
RECURSIVE RunRetry(_, _, _)
RunRetry(c, outs, attempt) ==
    IF attempt >= RetriesOf(c)
    THEN [value |-> ExhaustedOf(c), attempts |-> attempt]
    ELSE LET st == StepOf(c, attempt, outs[attempt + 1])
         IN  IF st.done THEN [value |-> st.value, attempts |-> attempt + 1]
             ELSE RunRetry(c, outs, attempt + 1)

\* every way get_response / send_message can end
get_response == {RunRetry("ai", outs, 0) : outs \in [1..max_retries -> AiOutcomes]}
send_message == {RunRetry("send", outs, 0).value :
                    outs \in [1..APPLESCRIPT_RETRY_COUNT -> SendOutcomes]}

\* one iteration of the for loop (the external call, then return or sleep),
\* or the return after the loop when range(max_retries) is exhausted
RetryAttempt ==
    /\ rpc = "attempt"
    /\ IF rattempt >= RetriesOf(rcall)
       THEN /\ rpc' = "done"
            /\ rresult' = ExhaustedOf(rcall)
            /\ UNCHANGED <<rattempt, rlog, rwaits>>
       ELSE \E o \in OutcomesOf(rcall) :
              LET st == StepOf(rcall, rattempt, o)
              IN  /\ rlog' = Append(rlog, o)
                  /\ IF st.done
                     THEN /\ rpc' = "done"
                          /\ rresult' = st.value
                          /\ rwaits' = rwaits
                          /\ rattempt' = rattempt
                     ELSE /\ rpc' = "attempt"
                          /\ rresult' = rresult
                          /\ rwaits' = Append(rwaits, st.wait)
                          /\ rattempt' = rattempt + 1
    /\ UNCHANGED rcall
    /\ UNCHANGED mainVars /\ UNCHANGED pureVars

\* the caller issues the next call
RetryAgain ==
    /\ rpc = "done"
    /\ rpc' = "attempt"
    /\ rcall' \in {"ai", "send"}
    /\ rattempt' = 0
    /\ rlog' = <<>>
    /\ rwaits' = <<>>
    /\ rresult' = "running"
    /\ UNCHANGED mainVars /\ UNCHANGED pureVars

(***************************************************************************)
(* The handler tasks.                                                      *)
(***************************************************************************)
\* AI replies the model draws from: one paragraph, two paragraphs with
\* stray white space, and white space only.
Replies == { <<"a">>,
             <<" ", "a", NL, NL, NL, "b", " ">>,
             <<" ", NL, NL, " ">> }

\* mutant: one slot too many
SemaphoreInit_off_by_one == MAX_CONCURRENT_REQUESTS + 1

\* asyncio.Semaphore(Config.MAX_CONCURRENT_REQUESTS)
SemaphoreInit == MAX_CONCURRENT_REQUESTS

\* asyncio.create_task(self.handle_conversation(sender_id, message_text))
NewTask(r) ==
    [row |-> r, pc |-> "wait_sem", ai |-> "pending", exhausted |-> FALSE,
     parts |-> <<>>, i |-> 0, sends |-> <<>>, outbox |-> <<>>, inSaved |-> FALSE,
     waits |-> <<>>, exc |-> "none", tfail |-> FALSE]

TaskIds == 1..Len(tasks)

\* what is left of a task once its done callback has run and nothing refers
\* to it any more
Gone(r) == [NewTask(r) EXCEPT !.pc = "gone"]

\* the task is inside `async with self.semaphore`
PastGate(t) == tasks[t].pc \notin {"wait_sem", "done", "gone"}

\* the task is executing send_message or a typing-indicator action
Delivering(t) == tasks[t].pc \in {"dot0", "send", "pace", "fb_send"}

\* the task is inside one of the `async with self.gui_lock` blocks
InLockBlock(t) == tasks[t].pc \in {"dot0", "send", "pace", "fb_send"}

\* the handler returns normally: both context managers exit
HandlerReturn(rec) == [rec EXCEPT !.pc = "done", !.i = 0]

\* mutant: the exception is not caught and ends the task
HandlerExcept_escapes(rec) == [rec EXCEPT !.pc = "done", !.i = 0, !.exc = "escaped"]

\* except Exception as e: logger.error(...)
HandlerExcept(rec) == [rec EXCEPT !.pc = "done", !.i = 0, !.exc = "caught"]

\* mutant: a handler that raised does not give its slot back
Leave_leaks(t, rec) ==
    /\ tasks' = [tasks EXCEPT ![t] = rec]
    /\ gui_lock' = IF gui_lock = t THEN 0 ELSE gui_lock
    /\ sem' = IF rec.exc = "caught" THEN sem ELSE sem + 1
    /\ UNCHANGED live

\* The task leaves handle_conversation with record rec: the gui_lock block
\* (if it is in one) and the semaphore block exit.
Leave(t, rec) ==
    /\ tasks' = [tasks EXCEPT ![t] = rec]
    /\ gui_lock' = IF gui_lock = t THEN 0 ELSE gui_lock
    /\ sem' = sem + 1
    /\ UNCHANGED live

\* The task stays in the handler with record rec.
Stay(t, rec) ==
    /\ tasks' = [tasks EXCEPT ![t] = rec]
    /\ UNCHANGED <<gui_lock, sem, live>>

procVars == <<source, cursor, mpc, running, signalled, last_row_id, new_row_id,
              loopStart, writeRaised, typing, MAX_CONCURRENT_REQUESTS, closed,
              atShutdown, polled>>

\* async with self.semaphore
Acquire(t) ==
    /\ tasks[t].pc = "wait_sem"
    /\ sem > 0
    /\ sem' = sem - 1
    /\ tasks' = [tasks EXCEPT ![t].pc = "started"]
    /\ UNCHANGED <<gui_lock, live>>
    /\ UNCHANGED procVars /\ UNCHANGED retryVars /\ UNCHANGED pureVars

\* mutant: the inbound message is not written before the handler goes on
SaveInbound_skipped(t) ==
    /\ tasks[t].pc = "started"
    /\ Stay(t, [tasks[t] EXCEPT !.pc = IF typing THEN "wait_lock_dot" ELSE "ai"])
    /\ UNCHANGED procVars /\ UNCHANGED retryVars /\ UNCHANGED pureVars

\* await self.db.save_message(sender_id, message_text, is_from_user=True)
SaveInbound(t) ==
    /\ tasks[t].pc = "started"
    /\ \E o \in StoreOutcomes :
         IF o = "ok"
         THEN Stay(t, [tasks[t] EXCEPT !.inSaved = TRUE,
                                       !.pc = IF typing THEN "wait_lock_dot" ELSE "ai"])
         ELSE Leave(t, HandlerExcept(tasks[t]))
    /\ UNCHANGED procVars /\ UNCHANGED retryVars /\ UNCHANGED pureVars

\* mutant: the first typing indicator is shown without taking the lock
DotAcquire_unlocked(t) ==
    /\ tasks[t].pc = "wait_lock_dot"
    /\ tasks' = [tasks EXCEPT ![t].pc = "dot0"]
    /\ UNCHANGED <<gui_lock, sem, live>>
    /\ UNCHANGED procVars /\ UNCHANGED retryVars /\ UNCHANGED pureVars

\* if Config.ENABLE_TYPING_INDICATOR: async with self.gui_lock
DotAcquire(t) ==
    /\ tasks[t].pc = "wait_lock_dot"
    /\ gui_lock = 0
    /\ gui_lock' = t
    /\ tasks' = [tasks EXCEPT ![t].pc = "dot0"]
    /\ UNCHANGED <<sem, live>>
    /\ UNCHANGED procVars /\ UNCHANGED retryVars /\ UNCHANGED pureVars

\* mutant: a typing action that failed raises into the handler
DotRelease_fatal(t) ==
    /\ tasks[t].pc = "dot0"
    /\ \E o \in TypingOutcomes :
         IF o = "failed"
         THEN Leave(t, HandlerExcept([tasks[t] EXCEPT !.tfail = TRUE]))
         ELSE /\ gui_lock' = 0
              /\ tasks' = [tasks EXCEPT ![t].pc = "ai"]
              /\ UNCHANGED <<sem, live>>
    /\ UNCHANGED procVars /\ UNCHANGED retryVars /\ UNCHANGED pureVars

\* navigate_to_chat_and_type_dot returns (its result is not looked at), the
\* lock block exits
DotRelease(t) ==
    /\ tasks[t].pc = "dot0"
    /\ \E o \in TypingOutcomes :
         /\ gui_lock' = 0
         /\ tasks' = [tasks EXCEPT ![t].pc = "ai",
                                   ![t].tfail = @ \/ o = "failed"]
         /\ UNCHANGED <<sem, live>>
    /\ UNCHANGED procVars /\ UNCHANGED retryVars /\ UNCHANGED pureVars

\* mutant: no else branch, a failed AI call is handled as an empty reply
AfterAi_no_fallback(rec, res, text) ==
    IF res.value = "reply"
    THEN [rec EXCEPT !.ai = "reply", !.parts = split_into_messages(text, max_messages),
                     !.pc = "wait_lock_send"]
    ELSE [rec EXCEPT !.ai = "failed", !.exhausted = (res.attempts = max_retries),
                     !.pc = "wait_lock_send"]

\* the branch taken on the value of get_response
AfterAi(rec, res, text) ==
    IF res.value = "reply"
    THEN [rec EXCEPT !.ai = "reply", !.parts = split_into_messages(text, max_messages),
                     !.pc = "wait_lock_send"]
    ELSE [rec EXCEPT !.ai = "failed", !.exhausted = (res.attempts = max_retries),
                     !.pc = "wait_lock_fb"]

\* get_conversation_history, then get_response
AiCall(t) ==
    /\ tasks[t].pc = "ai"
    /\ \E o \in StoreOutcomes :
         IF o = "ok"
         THEN \E res \in get_response, text \in Replies :
                 Stay(t, AfterAi(tasks[t], res, text))
         ELSE Leave(t, HandlerExcept(tasks[t]))
    /\ UNCHANGED procVars /\ UNCHANGED retryVars /\ UNCHANGED pureVars

\* async with self.gui_lock: for i, message_part in enumerate(message_parts)
\* (an empty list of parts leaves the block at once)
SendAcquire(t) ==
    /\ tasks[t].pc = "wait_lock_send"
    /\ gui_lock = 0
    /\ IF tasks[t].parts = <<>>
       THEN Leave(t, HandlerReturn(tasks[t]))
       ELSE /\ gui_lock' = t
            /\ tasks' = [tasks EXCEPT ![t].i = 1,
                                      ![t].pc = "send"]
            /\ UNCHANGED <<sem, live>>
    /\ UNCHANGED procVars /\ UNCHANGED retryVars /\ UNCHANGED pureVars

\* what follows a part that was sent and saved
AfterPart(rec) ==
    IF rec.i < Len(rec.parts)
    THEN IF typing
         THEN [rec EXCEPT !.pc = "pace"]
         ELSE [rec EXCEPT !.i = @ + 1, !.pc = "send"]
    ELSE HandlerReturn(rec)

\* mutant: the outbound record is written before the send, whatever it gives
SendPart_saves_failed(t) ==
    /\ tasks[t].pc = "send"
    /\ \E ok \in send_message, o \in StoreOutcomes :
         LET part == tasks[t].parts[tasks[t].i]
             saved == [tasks[t] EXCEPT !.outbox = Append(@, part)]
             sent == [saved EXCEPT !.sends = Append(@, [text |-> part, ok |-> ok])]
         IN  IF o = "raises" THEN Leave(t, HandlerExcept(tasks[t]))
             ELSE IF ~ok THEN Leave(t, HandlerReturn(sent))
             ELSE IF AfterPart(sent).pc = "done" THEN Leave(t, AfterPart(sent))
             ELSE Stay(t, AfterPart(sent))
    /\ UNCHANGED procVars /\ UNCHANGED retryVars /\ UNCHANGED pureVars

\* mutant: no break after a failed send, the loop goes on to the next part
SendPart_no_break(t) ==
    /\ tasks[t].pc = "send"
    /\ \E ok \in send_message, o \in StoreOutcomes :
         LET part == tasks[t].parts[tasks[t].i]
             sent == [tasks[t] EXCEPT !.sends = Append(@, [text |-> part, ok |-> ok])]
             saved == [sent EXCEPT !.outbox = Append(@, part)]
             next == IF ok THEN saved ELSE sent
         IN  IF ok /\ o = "raises" THEN Leave(t, HandlerExcept(sent))
             ELSE IF AfterPart(next).pc = "done" THEN Leave(t, AfterPart(next))
             ELSE Stay(t, AfterPart(next))
    /\ UNCHANGED procVars /\ UNCHANGED retryVars /\ UNCHANGED pureVars

\* clear_dot_from_message_field (before part 0, when the indicator is on);
\* success = await send_message(sender_id, message_part); then
\* save_message(..., is_from_user=False) or break
SendPart(t) ==
    /\ tasks[t].pc = "send"
    /\ \E c \in TypingOutcomes, ok \in send_message, o \in StoreOutcomes :
         LET part == tasks[t].parts[tasks[t].i]
             cleared == typing /\ tasks[t].i = 1
             sent == [tasks[t] EXCEPT !.sends = Append(@, [text |-> part, ok |-> ok]),
                                      !.tfail = @ \/ (cleared /\ c = "failed")]
             saved == [sent EXCEPT !.outbox = Append(@, part)]
         IN  IF ~ok THEN Leave(t, HandlerReturn(sent))
             ELSE IF o = "raises" THEN Leave(t, HandlerExcept(sent))
             ELSE IF AfterPart(saved).pc = "done" THEN Leave(t, AfterPart(saved))
             ELSE Stay(t, AfterPart(saved))
    /\ UNCHANGED procVars /\ UNCHANGED retryVars /\ UNCHANGED pureVars

\* mutant: the lock is given up after the pacing sleep and the next part is
\* sent without it
Pace_releases(t) ==
    /\ tasks[t].pc = "pace"
    /\ tasks' = [tasks EXCEPT
                  ![t].waits = Append(@, calculate_typing_delay(tasks[t].parts[tasks[t].i + 1])),
                  ![t].i = @ + 1, ![t].pc = "send"]
    /\ gui_lock' = 0
    /\ UNCHANGED <<sem, live>>
    /\ UNCHANGED procVars /\ UNCHANGED retryVars /\ UNCHANGED pureVars

\* between two parts, when the indicator is on: navigate_to_chat_and_type_dot,
\* asyncio.sleep(calculate_typing_delay(message_parts[i + 1])),
\* clear_dot_from_message_field
Pace(t) ==
    /\ tasks[t].pc = "pace"
    /\ \E d \in TypingOutcomes, c \in TypingOutcomes :
         Stay(t, [tasks[t] EXCEPT
                  !.waits = Append(@, calculate_typing_delay(tasks[t].parts[tasks[t].i + 1])),
                  !.tfail = @ \/ d = "failed" \/ c = "failed",
                  !.i = @ + 1, !.pc = "send"])
    /\ UNCHANGED procVars /\ UNCHANGED retryVars /\ UNCHANGED pureVars

\* else: async with self.gui_lock (the fallback branch)
FallbackAcquire(t) ==
    /\ tasks[t].pc = "wait_lock_fb"
    /\ gui_lock = 0
    /\ gui_lock' = t
    /\ tasks' = [tasks EXCEPT ![t].pc = "fb_send"]
    /\ UNCHANGED <<sem, live>>
    /\ UNCHANGED procVars /\ UNCHANGED retryVars /\ UNCHANGED pureVars

\* the handler after send_message(sender_id, fallback_message) returned ok
AfterFallback(rec, ok) ==
    HandlerReturn([rec EXCEPT !.sends = Append(@, [text |-> FALLBACK, ok |-> ok])])

\* clear_dot_from_message_field (when the indicator is on);
\* await send_message(sender_id, fallback_message)
FallbackSend(t) ==
    /\ tasks[t].pc = "fb_send"
    /\ \E c \in TypingOutcomes, ok \in send_message :
         Leave(t, AfterFallback([tasks[t] EXCEPT !.tfail = @ \/ (typing /\ c = "failed")], ok))
    /\ UNCHANGED procVars /\ UNCHANGED retryVars /\ UNCHANGED pureVars

\* task.add_done_callback(self.tasks.discard): the callback of a finished
\* task runs, after which nothing refers to the task
Discard(t) ==
    /\ tasks[t].pc = "done"
    /\ live' = live \ {t}
    /\ tasks' = [tasks EXCEPT ![t] = Gone(tasks[t].row)]
    /\ UNCHANGED <<sem, gui_lock>>
    /\ UNCHANGED procVars /\ UNCHANGED retryVars /\ UNCHANGED pureVars

(***************************************************************************)
(* The message source and the poller.                                      *)
(***************************************************************************)
Max(S) == CHOOSE x \in S : \A y \in S : y <= x
Min(S) == CHOOSE x \in S : \A y \in S : x <= y

\* SELECT MAX(ROWID) FROM message; `row[0] if row and row[0] else 0`
MaxRowIdOf(src) == Len(src)

\* get_current_max_row_id: the query's value, or 0 when the query raised
get_current_max_row_id(ok) == IF ok THEN MaxRowIdOf(source) ELSE 0

\* mutant: WHERE message.ROWID >= ?
PollQuery_inclusive(last) == {r \in 1..Len(source) : r >= last /\ source[r].eligible}

\* WHERE message.ROWID > ? AND is_from_me = 0 AND text IS NOT NULL AND text != ''
PollQuery(last) == {r \in 1..Len(source) : r > last /\ source[r].eligible}

\* mutant: a query that raised still gives the rows it had fetched
poll_new_messages_partial(last, ok) ==
    LET rows == PollQuery(last)
    IN  [rows |-> rows, max_row_id |-> IF rows = {} THEN last ELSE Max(rows \cup {last})]

\* mutant: the first row of a batch of several is left out of the messages
\* but counted in the maximum row id
poll_new_messages_drops(last, ok) ==
    LET found == IF ok THEN PollQuery(last) ELSE {}
        rows == IF Cardinality(found) > 1 THEN found \ {Min(found)} ELSE found
    IN  [rows |-> rows, max_row_id |-> IF found = {} THEN last ELSE Max(found \cup {last})]

\* poll_new_messages: the rows of the batch and the new maximum row id;
\* a query that raised gives the empty batch and last_row_id back
poll_new_messages(last, ok) ==
    LET rows == IF ok THEN PollQuery(last) ELSE {}
    IN  [rows |-> rows, max_row_id |-> IF rows = {} THEN last ELSE Max(rows \cup {last})]

\* mutant: the tasks are created from the largest row id down
RECURSIVE SpawnAll_desc(_, _)
SpawnAll_desc(ts, rows) ==
    IF rows = {} THEN ts
    ELSE SpawnAll_desc(Append(ts, NewTask(Max(rows))), rows \ {Max(rows)})

\* for sender_id, message_text, _ in messages: create_task(...), in the
\* order of the batch (ORDER BY message.ROWID ASC)
RECURSIVE SpawnAll(_, _)
SpawnAll(ts, rows) ==
    IF rows = {} THEN ts
    ELSE SpawnAll(Append(ts, NewTask(Min(rows))), rows \ {Min(rows)})

taskVars == <<tasks, live, sem, gui_lock>>

\* a message is written to chat.db by the Messages application
Arrive ==
    /\ Len(source) < MaxRow
    /\ \E e \in BOOLEAN : source' = Append(source, [eligible |-> e])
    /\ UNCHANGED <<cursor, mpc, running, signalled, last_row_id, new_row_id,
                   loopStart, writeRaised, typing, MAX_CONCURRENT_REQUESTS, closed>>
    /\ UNCHANGED <<atShutdown, polled>>
    /\ UNCHANGED taskVars /\ UNCHANGED retryVars /\ UNCHANGED pureVars

\* signal_handler: server.running = False
Signal ==
    /\ mpc # "exited"
    /\ running' = FALSE
    /\ signalled' = TRUE
    /\ UNCHANGED <<source, cursor, mpc, last_row_id, new_row_id, loopStart,
                   writeRaised, typing, MAX_CONCURRENT_REQUESTS, closed>>
    /\ UNCHANGED <<atShutdown, polled>>
    /\ UNCHANGED taskVars /\ UNCHANGED retryVars /\ UNCHANGED pureVars

\* run: await self.init(); self.running = True
InitDone ==
    /\ mpc = "init"
    /\ running' = TRUE
    /\ mpc' = "start"
    /\ UNCHANGED <<source, cursor, signalled, last_row_id, new_row_id, loopStart,
                   writeRaised, typing, MAX_CONCURRENT_REQUESTS, closed>>
    /\ UNCHANGED <<atShutdown, polled>>
    /\ UNCHANGED taskVars /\ UNCHANGED retryVars /\ UNCHANGED pureVars

\* run: self.init() raises (Config.validate, init_db), before the try block
InitFail ==
    /\ mpc = "init"
    /\ mpc' = "exited"
    /\ UNCHANGED <<source, cursor, running, signalled, last_row_id, new_row_id,
                   loopStart, writeRaised, typing, MAX_CONCURRENT_REQUESTS, closed>>
    /\ UNCHANGED <<atShutdown, polled>>
    /\ UNCHANGED taskVars /\ UNCHANGED retryVars /\ UNCHANGED pureVars

\* mutant: the first-run branch is taken on every start
NeedsBootstrap_always(last) == TRUE

\* if last_row_id == 0: the first run
NeedsBootstrap(last) == last = 0

\* poll_messages: last_row_id = await self.db.get_last_processed_row_id()
ReadCursor ==
    /\ mpc = "start"
    /\ \E o \in StoreOutcomes :
         IF o = "ok"
         THEN /\ last_row_id' = cursor
              /\ IF NeedsBootstrap(cursor)
                 THEN mpc' = "bootstrap" /\ UNCHANGED loopStart
                 ELSE mpc' = "loop" /\ loopStart' = cursor
         ELSE /\ mpc' = "shutdown"
              /\ UNCHANGED <<last_row_id, loopStart>>
    /\ UNCHANGED <<source, cursor, running, signalled, new_row_id, writeRaised,
                   typing, MAX_CONCURRENT_REQUESTS, closed>>
    /\ UNCHANGED <<atShutdown, polled>>
    /\ UNCHANGED taskVars /\ UNCHANGED retryVars /\ UNCHANGED pureVars

\* if last_row_id == 0: get_current_max_row_id, update_last_processed_row_id
Bootstrap ==
    /\ mpc = "bootstrap"
    /\ \E ok \in BOOLEAN, o \in StoreOutcomes :
         LET m == get_current_max_row_id(ok)
         IN  IF o = "ok"
             THEN /\ cursor' = m
                  /\ last_row_id' = m
                  /\ loopStart' = m
                  /\ mpc' = "loop"
             ELSE /\ mpc' = "shutdown"
                  /\ UNCHANGED <<cursor, last_row_id, loopStart>>
    /\ UNCHANGED <<source, running, signalled, new_row_id, writeRaised, typing, MAX_CONCURRENT_REQUESTS, closed>>
    /\ UNCHANGED <<atShutdown, polled>>
    /\ UNCHANGED taskVars /\ UNCHANGED retryVars /\ UNCHANGED pureVars

\* while self.running
LoopCheck ==
    /\ mpc = "loop"
    /\ mpc' = IF running THEN "polling" ELSE "shutdown"
    /\ UNCHANGED <<source, cursor, running, signalled, last_row_id, new_row_id,
                   loopStart, writeRaised, typing, MAX_CONCURRENT_REQUESTS, closed>>
    /\ UNCHANGED atShutdown
    /\ polled' = "ok"
    /\ UNCHANGED taskVars /\ UNCHANGED retryVars /\ UNCHANGED pureVars

\* messages, new_row_id = await poll_new_messages(last_row_id); if messages:
\* one task per message; otherwise sleep and loop
PollBatch ==
    /\ mpc = "polling"
    /\ \E ok \in BOOLEAN :
         LET res == poll_new_messages(last_row_id, ok)
         IN  IF res.rows = {}
             THEN /\ mpc' = "loop"
                  /\ polled' = IF ok THEN "ok" ELSE "failed"
                  /\ UNCHANGED <<new_row_id, tasks, live>>
             ELSE /\ Len(tasks) + Cardinality(res.rows) <= MaxTasks
                  /\ polled' = IF ok THEN "ok" ELSE "failed"
                  /\ tasks' = SpawnAll(tasks, res.rows)
                  /\ live' = live \cup ((Len(tasks) + 1)..(Len(tasks) + Cardinality(res.rows)))
                  /\ new_row_id' = res.max_row_id
                  /\ mpc' = "persist"
    /\ UNCHANGED <<source, cursor, running, signalled, last_row_id, loopStart,
                   writeRaised, typing, MAX_CONCURRENT_REQUESTS, closed, sem, gui_lock>>
    /\ UNCHANGED atShutdown
    /\ UNCHANGED retryVars /\ UNCHANGED pureVars

\* await update_last_processed_row_id(new_row_id); last_row_id = new_row_id;
\* a raise goes to the except branch of the loop; then sleep(POLL_INTERVAL)
PollPersist ==
    /\ mpc = "persist"
    /\ \E o \in StoreOutcomes :
         IF o = "ok"
         THEN /\ cursor' = new_row_id
              /\ last_row_id' = new_row_id
              /\ writeRaised' = FALSE
         ELSE /\ writeRaised' = TRUE
              /\ UNCHANGED <<cursor, last_row_id>>
    /\ new_row_id' = 0          \* dead until the next poll assigns it
    /\ mpc' = "loop"
    /\ UNCHANGED <<source, running, signalled, loopStart, typing, MAX_CONCURRENT_REQUESTS, closed>>
    /\ UNCHANGED atShutdown
    /\ polled' = "ok"
    /\ UNCHANGED taskVars /\ UNCHANGED retryVars /\ UNCHANGED pureVars

\* run: finally: shutdown(): self.running = False
Shutdown ==
    /\ mpc = "shutdown"
    /\ running' = FALSE
    /\ mpc' = "drain"
    /\ UNCHANGED <<source, cursor, signalled, last_row_id, new_row_id, loopStart,
                   writeRaised, typing, MAX_CONCURRENT_REQUESTS, closed>>
    /\ UNCHANGED polled
    /\ atShutdown' = live
    /\ UNCHANGED taskVars /\ UNCHANGED retryVars /\ UNCHANGED pureVars

\* mutant: the session and the store are closed without the gather
Drain_no_wait ==
    /\ mpc = "drain"
    /\ closed' = TRUE
    /\ mpc' = "exited"
    /\ UNCHANGED <<source, cursor, running, signalled, last_row_id, new_row_id,
                   loopStart, writeRaised, typing, MAX_CONCURRENT_REQUESTS>>
    /\ UNCHANGED <<atShutdown, polled>>
    /\ UNCHANGED taskVars /\ UNCHANGED retryVars /\ UNCHANGED pureVars

\* shutdown: gather(*self.tasks) has returned; close_session(); db.close()
Drain ==
    /\ mpc = "drain"
    /\ live = {}
    /\ closed' = TRUE
    /\ mpc' = "exited"
    /\ UNCHANGED <<source, cursor, running, signalled, last_row_id, new_row_id,
                   loopStart, writeRaised, typing, MAX_CONCURRENT_REQUESTS>>
    /\ UNCHANGED <<atShutdown, polled>>
    /\ UNCHANGED taskVars /\ UNCHANGED retryVars /\ UNCHANGED pureVars

\* the server is started again: EchoServer.__init__ and main up to run()
Restart ==
    /\ mpc = "exited"
    /\ mpc' = "init"
    /\ running' = FALSE
    /\ signalled' = FALSE
    /\ closed' = FALSE
    /\ last_row_id' = 0
    /\ new_row_id' = 0
    /\ sem' = SemaphoreInit
    /\ gui_lock' = 0
    /\ live' = {}
    /\ UNCHANGED <<source, cursor, loopStart, writeRaised, typing,
                   MAX_CONCURRENT_REQUESTS, tasks>>
    /\ atShutdown' = {}
    /\ polled' = "ok"
    /\ UNCHANGED retryVars /\ UNCHANGED pureVars

(***************************************************************************)
(* The specifications.                                                     *)
(***************************************************************************)
Init ==
    /\ source = <<>>
    /\ cursor = 0
    /\ mpc = "init"
    /\ running = FALSE
    /\ signalled = FALSE
    /\ last_row_id = 0
    /\ new_row_id = 0
    /\ loopStart = 0
    /\ writeRaised = FALSE
    /\ tasks = <<>>
    /\ live = {}
    /\ typing \in BOOLEAN
    /\ MAX_CONCURRENT_REQUESTS \in 1..MaxSlots
    /\ sem = SemaphoreInit
    /\ gui_lock = 0
    /\ closed = FALSE
    /\ atShutdown = {}
    /\ polled = "ok"
    /\ rcall = "none"
    /\ rpc = "idle"
    /\ rattempt = 0
    /\ rlog = <<>>
    /\ rwaits = <<>>
    /\ rresult = "running"
    /\ pfun = "none"
    /\ ptext = <<>>
    /\ pcap = 0
    /\ presult = <<>>
    /\ ppc = "idle"

\* the event loop runs one step of the main coroutine, of a handler task or
\* of the environment
Next ==
    \/ Arrive
    \/ Signal
    \/ InitDone
    \/ InitFail
    \/ ReadCursor
    \/ Bootstrap
    \/ LoopCheck
    \/ PollBatch
    \/ PollPersist
    \/ Shutdown
    \/ Drain
    \/ Restart
    \/ \E t \in TaskIds : Acquire(t)
    \/ \E t \in TaskIds : SaveInbound(t)
    \/ \E t \in TaskIds : DotAcquire(t)
    \/ \E t \in TaskIds : DotRelease(t)
    \/ \E t \in TaskIds : AiCall(t)
    \/ \E t \in TaskIds : SendAcquire(t)
    \/ \E t \in TaskIds : SendPart(t)
    \/ \E t \in TaskIds : Pace(t)
    \/ \E t \in TaskIds : FallbackAcquire(t)
    \/ \E t \in TaskIds : FallbackSend(t)
    \/ \E t \in TaskIds : Discard(t)

Spec == Init /\ [][Next]_vars

\* A retried call on its own: the server has not started, and the call is
\* get_response or send_message.
RetryInit ==
    /\ source = <<>>
    /\ cursor = 0
    /\ mpc = "init"
    /\ running = FALSE
    /\ signalled = FALSE
    /\ last_row_id = 0
    /\ new_row_id = 0
    /\ loopStart = 0
    /\ writeRaised = FALSE
    /\ tasks = <<>>
    /\ live = {}
    /\ typing = FALSE
    /\ MAX_CONCURRENT_REQUESTS = 1
    /\ sem = 1
    /\ gui_lock = 0
    /\ closed = FALSE
    /\ atShutdown = {}
    /\ polled = "ok"
    /\ rcall \in {"ai", "send"}
    /\ rpc = "attempt"
    /\ rattempt = 0
    /\ rlog = <<>>
    /\ rwaits = <<>>
    /\ rresult = "running"
    /\ pfun = "none"
    /\ ptext = <<>>
    /\ pcap = 0
    /\ presult = <<>>
    /\ ppc = "idle"

RetryNext ==
    \/ RetryAttempt
    \/ RetryAgain

RetrySpec == RetryInit /\ [][RetryNext]_vars

\* The pure functions on their own: one call of split_into_messages or of
\* calculate_typing_delay on an input drawn at the start.
SevenParagraphs ==
    <<"a", NL, NL, "b", NL, NL, "c", NL, NL, "d", NL, NL, "e", NL, NL, "f", NL, NL, "g">>
SplitTexts == UNION {[1..k -> {"a", " ", NL}] : k \in 0..MaxTextLen}
DelayTexts == {[k \in 1..n |-> "a"] : n \in 0..MaxMsgLen}

PureInit ==
    /\ source = <<>>
    /\ cursor = 0
    /\ mpc = "init"
    /\ running = FALSE
    /\ signalled = FALSE
    /\ last_row_id = 0
    /\ new_row_id = 0
    /\ loopStart = 0
    /\ writeRaised = FALSE
    /\ tasks = <<>>
    /\ live = {}
    /\ typing = FALSE
    /\ MAX_CONCURRENT_REQUESTS = 1
    /\ sem = 1
    /\ gui_lock = 0
    /\ closed = FALSE
    /\ atShutdown = {}
    /\ polled = "ok"
    /\ rcall = "none"
    /\ rpc = "idle"
    /\ rattempt = 0
    /\ rlog = <<>>
    /\ rwaits = <<>>
    /\ rresult = "running"
    /\ \/ /\ pfun = "split"
          /\ \/ ptext \in SplitTexts /\ pcap \in 1..MaxCap
             \/ ptext = SevenParagraphs /\ pcap = max_messages
       \/ /\ pfun = "delay"
          /\ ptext \in DelayTexts
          /\ pcap = 0
    /\ presult = <<>>
    /\ ppc = "input"

\* message_parts = self.split_into_messages(text, max_messages=cap)
SplitCall ==
    /\ ppc = "input" /\ pfun = "split"
    /\ presult' = split_into_messages(ptext, pcap)
    /\ ppc' = "returned"
    /\ UNCHANGED <<pfun, ptext, pcap>>
    /\ UNCHANGED mainVars /\ UNCHANGED retryVars

\* typing_delay = self.calculate_typing_delay(message)
DelayCall ==
    /\ ppc = "input" /\ pfun = "delay"
    /\ presult' = calculate_typing_delay(ptext)
    /\ ppc' = "returned"
    /\ UNCHANGED <<pfun, ptext, pcap>>
    /\ UNCHANGED mainVars /\ UNCHANGED retryVars

PureNext ==
    \/ SplitCall
    \/ DelayCall

PureSpec == PureInit /\ [][PureNext]_vars

(***************************************************************************)
(* Properties.                                                             *)
(***************************************************************************)
NewTasks == (Len(tasks) + 1)..Len(tasks')
Done(t) == tasks[t].pc = "done"
IsFallback(e) == e.text = FALLBACK
RECURSIVE Pow(_, _)
Pow(b, n) == IF n = 0 THEN 1 ELSE b * Pow(b, n - 1)

\* C1: the persisted cursor never decreases: every step that writes it
\* (bootstrap, a poll cycle, in any run of the server) stores a value that
\* is at least the value persisted before.
C1_CursorMonotone == [][cursor' >= cursor]_vars

\* a poll cycle has advanced the cursor beyond a non-zero start of the loop
C1_Witness == loopStart > 0 /\ cursor > loopStart /\ mpc = "loop"

\* C2: no task is ever created for a message whose row id is at most the
\* cursor that was persisted when the polling loop (of this run or of an
\* earlier one) started.
C2_NoReplay == [][\A t \in NewTasks : tasks'[t].row > loopStart]_vars

\* after a restart from a persisted cursor that covers a dispatched message,
\* a newer message is dispatched
C2_Witness ==
    /\ loopStart > 0
    /\ \E t, u \in TaskIds :
         /\ tasks[u].row <= loopStart /\ tasks[u].pc = "gone"
         /\ tasks[t].row > loopStart /\ tasks[t].pc = "wait_sem"

\* C3: each source message causes at most one handle_conversation task.
C3_AtMostOnce == \A t, u \in TaskIds : tasks[t].row = tasks[u].row => t = u

\* C4: the number of handlers inside `async with self.semaphore` is at most
\* MAX_CONCURRENT_REQUESTS.
C4_AdmissionBound ==
    Cardinality({t \in TaskIds : PastGate(t)}) <= MAX_CONCURRENT_REQUESTS

\* every slot is taken and one more handler waits at the gate
C4_Witness ==
    /\ Cardinality({t \in TaskIds : PastGate(t)}) = MAX_CONCURRENT_REQUESTS
    /\ \E t \in TaskIds : tasks[t].pc = "wait_sem"

\* C5: a handler that executes send_message or a typing-indicator action
\* holds the gui_lock, so no two handlers do so at the same moment.
C5_DeliveryExclusive ==
    /\ \A t \in TaskIds : Delivering(t) => gui_lock = t
    /\ Cardinality({t \in TaskIds : Delivering(t)}) <= 1

\* one handler delivers while another one waits for the lock
C5_Witness ==
    \E t, u \in TaskIds :
       /\ Delivering(t)
       /\ tasks[u].pc \in {"wait_lock_dot", "wait_lock_send", "wait_lock_fb"}

\* the sends of a reply: the parts in order, up to the first failed send
InOrderPrefix(rec) ==
    /\ Len(rec.sends) <= Len(rec.parts)
    /\ \A k \in 1..Len(rec.sends) :
         /\ rec.sends[k].text = rec.parts[k]
         /\ (k < Len(rec.sends) => rec.sends[k].ok)

\* C6: a handler whose AI call failed definitively sends the fallback
\* message, once, and no reply part; a handler whose AI call gave a reply
\* sends the parts of its own reply whatever happened to the others; and
\* the cursor covers the row of the failed message as soon as the cursor
\* write of its batch is over, unless that write raised.
C6_FallbackOnFailure ==
    \A t \in TaskIds :
       Done(t) =>
          /\ tasks[t].ai = "failed" =>
                /\ Len(tasks[t].sends) = 1
                /\ IsFallback(tasks[t].sends[1])
                /\ tasks[t].outbox = <<>>
                /\ (cursor >= tasks[t].row \/ mpc = "persist" \/ writeRaised)
          /\ tasks[t].ai = "reply" =>
                /\ InOrderPrefix(tasks[t])
                /\ (tasks[t].exc = "none" /\ tasks[t].sends # <<>>
                       /\ tasks[t].sends[Len(tasks[t].sends)].ok
                    => Len(tasks[t].sends) = Len(tasks[t].parts))

\* all 3 attempts failed for one message, its handler sent the fallback, the
\* handler of the other message delivered its whole reply, and the cursor
\* is past both
C6_Witness ==
    \E t, u \in TaskIds :
       /\ Done(t) /\ tasks[t].ai = "failed" /\ tasks[t].exhausted
       /\ Len(tasks[t].sends) = 1 /\ IsFallback(tasks[t].sends[1])
       /\ Done(u) /\ tasks[u].ai = "reply" /\ tasks[u].row # tasks[t].row
       /\ Len(tasks[u].sends) = 2 /\ tasks[u].sends[2].ok
       /\ cursor >= tasks[t].row /\ cursor >= tasks[u].row

\* C7: every handler that finishes without raising delivered a reply part or
\* sent the fallback.
C7_NeverSilent ==
    \A t \in TaskIds :
       Done(t) /\ tasks[t].exc = "none" =>
          \E k \in 1..Len(tasks[t].sends) :
             tasks[t].sends[k].ok \/ IsFallback(tasks[t].sends[k])

\* C8: a retried call makes at most 3 attempts, sleeps 1 * 2^i after failed
\* attempt i and before attempt i + 1, does not sleep after its last
\* attempt, and ends with an explicit value.
C8_RetryContract ==
    /\ Len(rlog) <= 3
    /\ \A k \in 1..Len(rwaits) : rwaits[k] = 1 * Pow(2, k - 1)
    /\ rpc = "attempt" => Len(rwaits) = Len(rlog)
    /\ rpc = "done" =>
          /\ Len(rlog) >= 1
          /\ Len(rwaits) = Len(rlog) - 1
          /\ rresult \in (IF rcall = "ai" THEN {"reply", None} ELSE BOOLEAN)

\* three transient failures: two sleeps of 1 and 2, then the failure value
C8_Witness ==
    /\ rcall = "ai" /\ rpc = "done"
    /\ rlog = <<"timeout", "status_5xx", "exception">>
    /\ rwaits = <<1, 2>>
    /\ rresult = None

\* C9: in get_response a non-transient failure (a status below 500, a 200
\* whose body is malformed or has no reply) is the last attempt of the
\* call: the call ends with the failure value and no sleep follows.
NonTransient == {"status_4xx", "ok_noreply", "ok_malformed"}
C9_NonTransientNotRetried ==
    rcall = "ai" =>
       \A k \in 1..Len(rlog) :
          rlog[k] \in NonTransient =>
             /\ k = Len(rlog)
             /\ rpc = "done"
             /\ rresult = None
             /\ Len(rwaits) = k - 1

\* C10: a step in which a handler faults (an exception, a failed send, a
\* failed AI call) or takes any other step changes nothing of the poller
\* and nothing of the other handlers; an exception ends the handler there,
\* caught, with its slot and the lock given back.
HandlerStep(t) == tasks'[t] # tasks[t]
C10_Isolation ==
    [][\A t \in TaskIds :
          HandlerStep(t) =>
             /\ tasks'[t].exc \in {"none", "caught"}
             /\ <<mpc, running, cursor, last_row_id, new_row_id, source, closed>>' =
                <<mpc, running, cursor, last_row_id, new_row_id, source, closed>>
             /\ \A u \in TaskIds \ {t} : tasks'[u] = tasks[u]
             /\ (tasks[t].exc = "none" /\ tasks'[t].exc # "none" =>
                    /\ tasks'[t].pc = "done"
                    /\ gui_lock' # t
                    /\ sem' = sem + 1)]_vars

\* one handler raised, its sibling delivered its reply, the loop is polling
C10_Witness ==
    /\ mpc = "polling"
    /\ \E t, u \in TaskIds :
          /\ Done(t) /\ tasks[t].exc = "caught"
          /\ Done(u) /\ tasks[u].exc = "none"
          /\ tasks[u].sends # <<>> /\ tasks[u].sends[1].ok

\* The paragraphs of a text, from their description: the pieces between
\* consecutive blank-line separators (taken left to right), each trimmed of
\* the white space around it, the empty ones left out.
FirstSep(s) ==
    IF \E i \in 1..(Len(s) - 1) : s[i] = NL /\ s[i + 1] = NL
    THEN Min({i \in 1..(Len(s) - 1) : s[i] = NL /\ s[i + 1] = NL})
    ELSE 0
Trimmed(s) ==
    LET inked == {i \in 1..Len(s) : s[i] \notin {" ", NL}}
    IN  IF inked = {} THEN <<>> ELSE SubSeq(s, Min(inked), Max(inked))
RECURSIVE Paragraphs(_)
Paragraphs(s) ==
    LET cut == FirstSep(s)
        piece == Trimmed(IF cut = 0 THEN s ELSE SubSeq(s, 1, cut - 1))
        kept == IF piece = <<>> THEN <<>> ELSE <<piece>>
    IN  IF cut = 0 THEN kept
        ELSE kept \o Paragraphs(SubSeq(s, cut + 2, Len(s)))
RECURSIVE Joined(_, _)
Joined(ps, k) ==
    IF k = 0 THEN <<>>
    ELSE IF k = 1 THEN ps[1]
    ELSE Joined(ps, k - 1) \o <<NL, NL>> \o ps[k]

\* C15: for every text and cap >= 1, split_into_messages returns the
\* paragraphs unchanged when there are at most cap of them, and otherwise
\* the first cap - 1 paragraphs followed by the remaining ones joined with
\* the blank-line separator; it returns at most cap parts, and joining them
\* gives the same text as joining the paragraphs (7 paragraphs with cap 5
\* give 5 parts, the 5th holding paragraphs 5 to 7).
C15_SplitContract ==
    ppc = "returned" /\ pfun = "split" =>
       LET ps == Paragraphs(ptext)
           n == Len(ps)
       IN  /\ Len(presult) <= pcap
           /\ n <= pcap => presult = ps
           /\ n > pcap =>
                 /\ Len(presult) = pcap
                 /\ \A k \in 1..(pcap - 1) : presult[k] = ps[k]
                 /\ presult[pcap] = Joined(SubSeq(ps, pcap, n), n - pcap + 1)
           /\ Joined(presult, Len(presult)) = Joined(ps, n)
           /\ ptext = SevenParagraphs /\ pcap = 5 =>
                 /\ Len(presult) = 5
                 /\ presult[5] = <<"e", NL, NL, "f", NL, NL, "g">>

\* 7 paragraphs were split with cap 5
C15_Witness ==
    /\ ppc = "returned" /\ pfun = "split"
    /\ ptext = SevenParagraphs /\ pcap = 5
    /\ Len(presult) = 5 /\ presult[4] = <<"d">>

\* C16: calculate_typing_delay equals the five-tier table for every length
\* (1.0 below 20, 1.5 for 20..49, 2.0 for 50..99, 2.5 for 100..199, 3.0 from
\* 200 on; in tenths of a second here) and is non-decreasing in the length.
TierTable(n) ==
    CASE n <= 19 -> 10
      [] n >= 20 /\ n <= 49 -> 15
      [] n >= 50 /\ n <= 99 -> 20
      [] n >= 100 /\ n <= 199 -> 25
      [] n >= 200 -> 30
C16_DelayTable ==
    ppc = "returned" /\ pfun = "delay" =>
       /\ presult = TierTable(Len(ptext))
       /\ \A m \in 0..Len(ptext) :
             calculate_typing_delay(SubSeq(ptext, 1, m)) <= presult

\* the delay of a message of 200 characters was computed
C16_Witness ==
    /\ ppc = "returned" /\ pfun = "delay"
    /\ Len(ptext) = 200 /\ presult = 30

Finished(t) == tasks[t].pc \in {"done", "gone"}

\* C11: shutdown is a cooperative drain: the AI session and the store are
\* closed only when every handler that was in flight when shutdown() was
\* entered (and every other handler) has finished; until then a handler in
\* flight stays in the live set, uncancelled; and when shutdown has returned
\* the live set is empty.
C11_CooperativeDrain ==
    /\ closed =>
          /\ \A t \in atShutdown : Finished(t)
          /\ \A t \in TaskIds : Finished(t)
          /\ live = {}
    /\ mpc = "drain" =>
          \A t \in TaskIds : ~Finished(t) => t \in live /\ t \in atShutdown

\* a signal stopped the loop while two handlers were in flight, both have
\* finished and the session and the store are closed
C11_Witness ==
    /\ closed /\ signalled /\ mpc = "exited"
    /\ Cardinality(atShutdown) = 2
    /\ \A t \in atShutdown : tasks[t].pc = "gone"

\* C12: once a shutdown signal has been delivered, the test of the polling
\* loop finds the running flag down (so the loop stops and shutdown() runs),
\* also when the signal came while init() was still running.
C12_SignalStopsLoop == signalled /\ mpc = "loop" => ~running

\* C13: a handler is past save_message(is_from_user=True) before it makes any
\* external call (typing indicator, AI request, send), and the inbound record
\* is still there when a later step has failed.
C13_InboundFirst ==
    \A t \in TaskIds :
       /\ tasks[t].pc \in {"wait_lock_dot", "dot0", "ai", "wait_lock_send", "send",
                            "pace", "wait_lock_fb", "fb_send"} => tasks[t].inSaved
       /\ Done(t) /\ (tasks[t].ai # "pending" \/ tasks[t].sends # <<>> \/ tasks[t].tfail)
             => tasks[t].inSaved

\* the save of a delivered part raised, the inbound record is in the log
C13_Witness ==
    \E t \in TaskIds :
       /\ Done(t) /\ tasks[t].exc = "caught"
       /\ tasks[t].ai = "reply" /\ tasks[t].sends # <<>>
       /\ tasks[t].inSaved

\* C14: the sends of a reply are an in-order prefix of its parts that ends at
\* the first failed send: nothing is sent after a failed send (the handler
\* is over), no part is sent twice, and the outbound records are the parts
\* delivered before the failure (all of them but possibly the last one, when
\* its own save raised).
AllOk(rec) == \A k \in 1..Len(rec.sends) : rec.sends[k].ok
C14_PrefixOfParts ==
    \A t \in TaskIds :
       tasks[t].ai = "reply" =>
          /\ Len(tasks[t].sends) <= Len(tasks[t].parts)
          /\ \A k \in 1..Len(tasks[t].sends) :
                /\ tasks[t].sends[k].text = tasks[t].parts[k]
                /\ ~tasks[t].sends[k].ok => k = Len(tasks[t].sends) /\ Done(t)
          /\ Len(tasks[t].outbox) <= Len(tasks[t].sends)
          /\ \A k \in 1..Len(tasks[t].outbox) :
                tasks[t].outbox[k] = tasks[t].parts[k] /\ tasks[t].sends[k].ok
          /\ \A k \in 1..Len(tasks[t].sends) :
                tasks[t].sends[k].ok /\ k > Len(tasks[t].outbox)
                   => k = Len(tasks[t].sends) /\ tasks[t].exc = "caught"
          /\ Done(t) /\ tasks[t].exc = "none" /\ AllOk(tasks[t])
                => Len(tasks[t].sends) = Len(tasks[t].parts)

\* the first of two parts was delivered and saved, the send of the second
\* failed and ended the reply
C14_Witness ==
    \E t \in TaskIds :
       /\ Done(t) /\ Len(tasks[t].parts) = 2
       /\ Len(tasks[t].sends) = 2
       /\ tasks[t].sends[1].ok /\ ~tasks[t].sends[2].ok
       /\ tasks[t].outbox = <<tasks[t].parts[1]>>

\* C17: on a first run, whatever the maximum-row-id query did, the cursor
\* that the first-run step stores and the loop starts from is above every
\* message already present in the source (as the source's maximum row id
\* is), so that a poll from it dispatches none of them.
C17_BootstrapSkipsBacklog ==
    [][mpc = "bootstrap" /\ mpc' = "loop" =>
          /\ last_row_id' = cursor'
          /\ PollQuery(cursor') = {}]_vars

\* C18: when the source query of a poll fails, poll_new_messages returns the
\* empty batch and the last_row_id it was given; that iteration creates no
\* task, leaves the persisted cursor and the watermark as they were, and goes
\* back to the test of the loop.
C18_PollFailureFrame ==
    [][polled' = "failed" /\ mpc = "polling" =>
          /\ poll_new_messages(last_row_id, FALSE) = [rows |-> {}, max_row_id |-> last_row_id]
          /\ tasks' = tasks /\ live' = live
          /\ cursor' = cursor /\ last_row_id' = last_row_id
          /\ mpc' = "loop" /\ running' = running]_vars

\* the query of a poll failed while an eligible message was waiting, and the
\* loop is about to poll again
C18_Witness ==
    /\ polled = "failed" /\ mpc = "loop" /\ running
    /\ PollQuery(last_row_id) # {}
    /\ Len(tasks) + Cardinality(PollQuery(last_row_id)) <= MaxTasks

\* what a handler that ended without an exception has sent: the fallback,
\* once, after a failed AI call; after a reply, its parts in order, all of
\* them unless a send failed
Delivered(rec) ==
    /\ rec.ai = "failed" => Len(rec.sends) = 1 /\ IsFallback(rec.sends[1])
    /\ rec.ai = "reply" =>
          /\ InOrderPrefix(rec)
          /\ AllOk(rec) => Len(rec.sends) = Len(rec.parts)

C20_PersistAfterDispatch ==
    [][/\ mpc = "polling" /\ Len(tasks') > Len(tasks) =>
             LET batch == PollQuery(last_row_id)
             IN  /\ {tasks'[t].row : t \in NewTasks} = batch
                 /\ Cardinality(NewTasks) = Cardinality(batch)
                 /\ \A t, u \in NewTasks : t < u => tasks'[t].row < tasks'[u].row
                 /\ \A t \in NewTasks : tasks'[t].pc = "wait_sem" /\ t \in live'
                 /\ new_row_id' = Max(batch)
                 /\ cursor' = cursor /\ cursor < Min(batch)
                 /\ mpc' = "persist"
       /\ mpc = "persist" /\ mpc' # "persist" /\ ~writeRaised' =>
             /\ cursor' = new_row_id
             /\ cursor' = tasks[Len(tasks)].row
             /\ \A t \in TaskIds : tasks[t].row <= cursor'
             /\ tasks' = tasks /\ sem' = sem /\ live' = live
       /\ mpc = "persist" /\ mpc' = "persist" => new_row_id' = new_row_id]_vars

\* the cursor was moved to the row id of the task created last while every
\* slot was taken and that task had not got one
C20_Witness ==
    /\ mpc = "loop" /\ Len(tasks) = 2 /\ sem = 0
    /\ cursor = tasks[2].row /\ tasks[1].row < tasks[2].row
    /\ tasks[2].pc = "wait_sem"
    /\ tasks[1].pc \notin {"wait_sem", "done", "gone"}

\* C21: a handler does not hold the gui_lock while it sleeps for the pacing
\* delay between two parts of its reply.
C21_LockPerPart == \A t \in TaskIds : tasks[t].pc = "pace" => gui_lock # t

\* C22: a handler whose AI call failed and that has sent the fallback has
\* the fallback text among its outbound records.
C22_FallbackPersisted ==
    \A t \in TaskIds :
       Done(t) /\ tasks[t].ai = "failed" /\ tasks[t].exc = "none"
          /\ tasks[t].sends # <<>> /\ tasks[t].sends[1].ok
       => \E k \in 1..Len(tasks[t].outbox) : tasks[t].outbox[k] = FALLBACK

\* C23: whether or not the typing indicator is enabled, a handler has waited
\* once before each part after the first, the delay computed from that
\* part, and not after the last part it sent.
C23_PacingWaits ==
    \A t \in TaskIds :
       tasks[t].ai = "reply" =>
          /\ \A k \in 1..Len(tasks[t].waits) :
                tasks[t].waits[k] = calculate_typing_delay(tasks[t].parts[k + 1])
          /\ tasks[t].pc = "send" => Len(tasks[t].waits) = tasks[t].i - 1
          /\ tasks[t].pc = "pace" => Len(tasks[t].waits) = tasks[t].i - 1
          /\ Done(t) /\ tasks[t].sends # <<>> =>
                Len(tasks[t].waits) = Len(tasks[t].sends) - 1

\* C24: once the signal has set the running flag to false, no
\* handle_conversation task is created.
C24_NoBatchAfterSignal ==
    [][signalled /\ ~running => Len(tasks') = Len(tasks)]_vars

Active(t) == PastGate(t)

\* C25: the free slots of the semaphore are always between 0 and N and equal
\* N minus the handlers inside the semaphore block; a handler that has left
\* (returned, sent the fallback, had a failed send, raised) holds none, and
\* with no handler inside every slot is free.
C25_NoSlotLeak ==
    /\ sem \in 0..MAX_CONCURRENT_REQUESTS
    /\ sem + Cardinality({t \in TaskIds : Active(t)}) = MAX_CONCURRENT_REQUESTS
    /\ (\A t \in TaskIds : ~Active(t)) => sem = MAX_CONCURRENT_REQUESTS

\* one handler raised, another one ended on a failed send, and every slot is
\* free again
C25_Witness ==
    /\ sem = MAX_CONCURRENT_REQUESTS
    /\ \E t, u \in TaskIds :
          /\ Done(t) /\ tasks[t].exc = "caught"
          /\ Done(u) /\ tasks[u].exc = "none" /\ tasks[u].sends # <<>>
          /\ ~tasks[u].sends[Len(tasks[u].sends)].ok

\* C26: the outbound records of a reply are at every moment its first parts
\* in order, each one a part whose send returned success; when the send of
\* a further part is about to start (or the handler sleeps before it) every
\* part sent so far is recorded; a part whose send failed is not recorded.
\* (A part whose own record could not be written ends the handler.)
C26_OutboundAfterSend ==
    \A t \in TaskIds :
       tasks[t].ai = "reply" =>
          /\ Len(tasks[t].outbox) <= Len(tasks[t].sends)
          /\ \A k \in 1..Len(tasks[t].outbox) :
                tasks[t].outbox[k] = tasks[t].parts[k] /\ tasks[t].sends[k].ok
          /\ tasks[t].pc = "send" =>
                Len(tasks[t].sends) = tasks[t].i - 1 /\ Len(tasks[t].outbox) = tasks[t].i - 1
          /\ tasks[t].pc = "pace" =>
                Len(tasks[t].sends) = tasks[t].i /\ Len(tasks[t].outbox) = tasks[t].i
          /\ Done(t) /\ tasks[t].exc = "none" =>
                Len(tasks[t].outbox) =
                   Cardinality({k \in 1..Len(tasks[t].sends) : tasks[t].sends[k].ok})

\* the first part is sent and recorded, the send of the second has not begun
C26_Witness ==
    \E t \in TaskIds :
       /\ tasks[t].pc = "send" /\ tasks[t].i = 2
       /\ tasks[t].outbox = <<tasks[t].parts[1]>>
       /\ Len(tasks[t].sends) = 1

\* the handler has sent a part of its reply and has more to send
MidReply(t) == tasks[t].pc \in {"send", "pace"} /\ tasks[t].sends # <<>>

\* C27: from the send of the first part of a reply to the send of its last
\* attempted part the handler holds the gui_lock, and no other handler is
\* in, enters or completes a delivery action (a send or a typing action).
C27_ContiguousDelivery ==
    [][\A t \in TaskIds :
          MidReply(t) =>
             /\ gui_lock = t
             /\ \A u \in TaskIds \ {t} :
                   /\ ~Delivering(u)
                   /\ tasks'[u].pc \notin {"dot0", "send", "pace", "fb_send"}
                   /\ Len(tasks'[u].sends) <= Len(tasks[u].sends)]_vars

\* a handler is between its two parts while another one waits for the lock
C27_Witness ==
    \E t, u \in TaskIds :
       /\ MidReply(t) /\ tasks[t].i = 2
       /\ tasks[u].pc \in {"wait_lock_dot", "wait_lock_send", "wait_lock_fb"}

MaxHandlers == 3

\* one step of some handler task: an await of handle_conversation returns
\* (with any of its outcomes) and the event loop resumes the task
HandlerNext ==
    \/ \E t \in TaskIds : Acquire(t)
    \/ \E t \in TaskIds : SaveInbound(t)
    \/ \E t \in TaskIds : DotAcquire(t)
    \/ \E t \in TaskIds : DotRelease(t)
    \/ \E t \in TaskIds : AiCall(t)
    \/ \E t \in TaskIds : SendAcquire(t)
    \/ \E t \in TaskIds : SendPart(t)
    \/ \E t \in TaskIds : Pace(t)
    \/ \E t \in TaskIds : FallbackAcquire(t)
    \/ \E t \in TaskIds : FallbackSend(t)

\* The server right after the first poll of a first run found a batch of
\* messages and created one task per message (poll_messages, the for loop
\* over the batch): the tasks have not started, the cursor write is pending.
BatchInit ==
    /\ \E k \in 1..MaxHandlers :
          /\ source = [r \in 1..k |-> [eligible |-> TRUE]]
          /\ tasks = SpawnAll(<<>>, 1..k)
          /\ live = 1..k
          /\ new_row_id = k
    /\ cursor = 0
    /\ mpc = "persist"
    /\ running = TRUE
    /\ signalled = FALSE
    /\ last_row_id = 0
    /\ loopStart = 0
    /\ writeRaised = FALSE
    /\ typing \in BOOLEAN
    /\ MAX_CONCURRENT_REQUESTS \in 1..MaxSlots
    /\ sem = SemaphoreInit
    /\ gui_lock = 0
    /\ closed = FALSE
    /\ atShutdown = {}
    /\ polled = "ok"
    /\ rcall = "none"
    /\ rpc = "idle"
    /\ rattempt = 0
    /\ rlog = <<>>
    /\ rwaits = <<>>
    /\ rresult = "running"
    /\ pfun = "none"
    /\ ptext = <<>>
    /\ pcap = 0
    /\ presult = <<>>
    /\ ppc = "idle"

\* the handlers of the batch under an event loop that keeps running the
\* tasks that are ready
BatchSpec == BatchInit /\ [][HandlerNext]_vars /\ WF_vars(HandlerNext)

\* a spawned handler that has not left handle_conversation
Unfinished(t) == t \in TaskIds /\ ~Finished(t)
\* the lock is only held by a handler that holds a slot and is inside one of
\* the lock blocks, a handler that has left holds neither, and as long as a
\* handler is unfinished some handler can take a step
LockOrder ==
    /\ \A t \in TaskIds :
          /\ gui_lock = t => PastGate(t) /\ InLockBlock(t)
          /\ Finished(t) => gui_lock # t
    /\ (\E t \in TaskIds : ~Finished(t)) => ENABLED HandlerNext
\* C28: no deadlock among the handlers. The semaphore is taken first and the
\* lock second, both are given back on every exit, some handler can always
\* take a step while one is unfinished, and, with every external call
\* returning and the ready tasks being run, every spawned handler eventually
\* finishes, also when more messages than slots are in flight.
C28_HandlersFinish ==
    /\ []LockOrder
    /\ \A t \in 1..MaxHandlers : Unfinished(t) ~> ~Unfinished(t)
\* three messages for one slot: all three handlers have finished, one after
\* an exception, one after a reply of two parts
C28_Witness ==
    /\ Len(tasks) = 3 /\ MAX_CONCURRENT_REQUESTS = 1
    /\ \A t \in TaskIds : Done(t)
    /\ \E t \in TaskIds : tasks[t].exc = "caught"
    /\ \E t \in TaskIds : tasks[t].exc = "none" /\ Len(tasks[t].sends) = 2
====
